---- MODULE Spec2Model ----
(***************************************************************************)
(* Model of fastify-sequelize-api-generator (src/src/index.js).            *)
(*                                                                         *)
(* Two specifications share this module:                                   *)
(*   Spec        the request-time behaviour of the routes generated by     *)
(*               FastifySequelizeAPI: the preHandler chain (_preHandler,   *)
(*               _preHandlerList) and the six route handlers, for          *)
(*               NumRequests concurrent requests interleaved at the await  *)
(*               points of the code;                                       *)
(*   SchemaSpec  FastifyAddModelSchema acting on the shared schema         *)
(*               registry of the fastify instance.                         *)
(*                                                                         *)
(* The router is fastify: it runs the hooks of a route's preHandler array  *)
(* one after another, awaiting each, stops the chain as soon as a reply    *)
(* has been sent or a hook has thrown, and calls the handler after the     *)
(* last hook (fastify Hooks reference, "Respond to a request from a        *)
(* hook").  A hook or handler that throws ends in fastify's default error  *)
(* response (status 500).                                                  *)
(***************************************************************************)
EXTENDS Integers, Sequences, FiniteSets, TLC

\* ------------------------------------------------------------------ bounds
NumRequests == 2

\* ------------------------------------------------------------- request data
Requests == 1..NumRequests

Ops == {"RETRIEVE", "LIST", "CREATE", "UPDATE_PATCH", "UPDATE_PUT", "DESTROY"}

\* The HTTP method each generated route is registered under.
Method(o) ==
  CASE o = "RETRIEVE" -> "GET"
    [] o = "LIST" -> "GET"
    [] o = "CREATE" -> "POST"
    [] o = "UPDATE_PATCH" -> "PATCH"
    [] o = "UPDATE_PUT" -> "PUT"
    [] o = "DESTROY" -> "DELETE"

\* request.params[lookupUrlParam]: not there, the empty string, or a value.
Undefined == "undefined"
Params == {Undefined, "", "7"}

\* JavaScript truthiness of request.params[lookupUrlParam].
Truthy(p) == p # Undefined /\ p # ""

\* What the lookup hook can resolve to: an instance, or nothing.
Instances == {"a", "b"}
Null == "null"

NoPayload == [kind |-> "none", inst |-> Null, list |-> {}]
EmptyPayload == [kind |-> "empty", inst |-> Null, list |-> {}]
ErrorPayload == [kind |-> "error", inst |-> Null, list |-> {}]
InstancePayload(i) == [kind |-> "instance", inst |-> i, list |-> {}]
ListPayload(l) == [kind |-> "list", inst |-> Null, list |-> l]

VARIABLES
  req,       \* per request: the request object, its reply and its coroutine
  registry,  \* fastify's schema registry: identifier -> schema, or NoSchema
  firstReg,  \* per entity: how its first FastifyAddModelSchema call ended
  lastCall,  \* the most recent FastifyAddModelSchema call and its outcome
  call,      \* DeriveSpec: the model and the arguments of a call
  triple,    \* DeriveSpec: the three schemas derived for call
  upd,       \* UpdateSpec: one PATCH/PUT request in its handler, with its data
  gen        \* ComposeSpec: one FastifySequelizeAPI call and the router

vars == <<req, registry, firstReg, lastCall, call, triple, upd, gen>>
schemaVars == <<registry, firstReg, lastCall>>

\* reply.code(c).send(payload)
Send(q, c, payload) == [q EXCEPT !.code = c, !.payload = payload]

\* The hooks FastifySequelizeAPI takes, whose calls q.calls records in order.
OwnHooks ==
  {"hasPermission", "getObject", "hasObjectPermission", "getObjects",
   "performCreate", "performUpdate", "performDestroy"}

\* A hook is called: it is in progress until it resolves.
Invoke(q, h) ==
  [q EXCEPT !.pc = h, !.running = @ \cup {h},
            !.calls = IF h \in OwnHooks THEN Append(@, h) ELSE @]

\* The awaited hook has settled; q.result keeps how each of the hooks of
\* OwnHooks settled: "truthy", "falsy", "threw", or "-" while it has not.
Settle(q, h, res) ==
  [q EXCEPT !.running = @ \ {h},
            !.result = IF h \in OwnHooks THEN [@ EXCEPT ![h] = res] ELSE @]

Outcome(b) == IF b THEN "truthy" ELSE "falsy"

\* fastify's default error response for a hook or handler that threw.
Fail(q) == [Send(q, 500, ErrorPayload) EXCEPT !.pc = "done"]

\* ------------------------------------------------- the preHandler arrays
\* _preHandler = [...preHandler, auth]; _preHandlerList = [..._preHandler, list].
\* q.stage is the part of the array the request is in: "user" (the caller's
\* preHandler hooks, any number of them), "auth", "list".
\* The instance a freshly built (unsaved) instance is known by.
Built == "new"

\* The route handlers, each up to its first await or to its reply.
\* q.handled records that the handler body has been entered.
HandlerBody(q) ==
  CASE q.op = "RETRIEVE" ->
         [Send(q, 200, InstancePayload(q.instance)) EXCEPT !.pc = "done"]
    [] q.op = "LIST" ->
         [Send(q, 200, ListPayload(q.instances)) EXCEPT !.pc = "done"]
    [] q.op = "CREATE" ->
         Invoke([q EXCEPT !.built = Built], "performCreate")
    [] q.op \in {"UPDATE_PATCH", "UPDATE_PUT"} ->
         \* Object.assign(undefined, body) throws a TypeError
         IF q.instance = Null THEN Fail(q) ELSE Invoke(q, "performUpdate")
    [] q.op = "DESTROY" ->
         Invoke(q, "performDestroy")

StartHandler(q) == HandlerBody([q EXCEPT !.handled = TRUE])

\* The router after a preHandler hook has resolved (and at the start of the
\* chain): nothing more runs once a reply has been sent; otherwise the next
\* hook, and after the last hook the handler.  more: the caller's preHandler
\* array has another hook to run.
Advance(q, more) ==
  IF q.code # 0 THEN [q EXCEPT !.pc = "done"]
  ELSE CASE q.stage = "user" ->
              IF more THEN Invoke(q, "preHandler")
              ELSE Invoke([q EXCEPT !.stage = "auth"], "hasPermission")
         [] q.stage = "auth" ->
              IF q.op = "LIST"
              THEN Invoke([q EXCEPT !.stage = "list"], "getObjects")
              ELSE StartHandler(q)
         [] q.stage = "list" -> StartHandler(q)

\* ------------------------------------------ the authorization hook, by await
\* Variants of the authorization hook with one slip each.
\* The result of hasPermission is not tested.
AfterHasPermissionUntested(q, allowed) ==
  IF Method(q.op) \in {"POST"} THEN [q EXCEPT !.pc = "return"]
  ELSE IF Truthy(q.param) THEN Invoke(q, "getObject")
  ELSE [q EXCEPT !.pc = "return"]

\* The POST branch is missing.
AfterHasPermissionNoPost(q, allowed) ==
  IF allowed
  THEN IF Truthy(q.param) THEN Invoke(q, "getObject")
       ELSE [q EXCEPT !.pc = "return"]
  ELSE [Send(q, 401, EmptyPayload) EXCEPT !.pc = "return"]

\* getObject is called without await: its promise is truthy, and
\* hasObjectPermission is called while getObject is still in progress.
AfterHasPermissionNoAwait(q, allowed) ==
  IF allowed
  THEN IF Method(q.op) \in {"POST"} THEN [q EXCEPT !.pc = "return"]
       ELSE IF Truthy(q.param)
       THEN Invoke(Invoke(q, "getObject"), "hasObjectPermission")
       ELSE [q EXCEPT !.pc = "return"]
  ELSE [Send(q, 401, EmptyPayload) EXCEPT !.pc = "return"]

\* After `await hasPermission(request)`.
AfterHasPermission(q, allowed) ==
  IF allowed
  THEN IF Method(q.op) \in {"POST"} THEN [q EXCEPT !.pc = "return"]
       ELSE IF Truthy(q.param) THEN Invoke(q, "getObject")
       ELSE [q EXCEPT !.pc = "return"]
  ELSE [Send(q, 401, EmptyPayload) EXCEPT !.pc = "return"]

\* The instance is not tested before the object check.
AfterGetObjectUntested(q, inst) ==
  Invoke([q EXCEPT !.found = inst], "hasObjectPermission")

\* The 404 reply is missing.
AfterGetObjectNoReply(q, inst) ==
  IF inst # Null
  THEN Invoke([q EXCEPT !.found = inst], "hasObjectPermission")
  ELSE [q EXCEPT !.pc = "return"]

\* After `const instance = await getObject(request)`.
AfterGetObject(q, inst) ==
  IF inst # Null
  THEN Invoke([q EXCEPT !.found = inst], "hasObjectPermission")
  ELSE [Send(q, 404, EmptyPayload) EXCEPT !.pc = "return"]

\* request.instance is assigned before the object check is tested.
AfterHasObjectPermissionEarlyAttach(q, allowed) ==
  IF allowed
  THEN [q EXCEPT !.instance = q.found, !.pc = "return"]
  ELSE [Send([q EXCEPT !.instance = q.found], 403, EmptyPayload)
          EXCEPT !.pc = "return"]

\* After `await hasObjectPermission(request, instance)`.
AfterHasObjectPermission(q, allowed) ==
  IF allowed
  THEN [q EXCEPT !.instance = q.found, !.pc = "return"]
  ELSE [Send(q, 403, EmptyPayload) EXCEPT !.pc = "return"]

\* The result of getObjects is not assigned to request.instances.
AfterGetObjectsNotAttached(q, coll) == [q EXCEPT !.pc = "return"]

\* After `request.instances = await getObjects(request)`.
AfterGetObjects(q, coll) == [q EXCEPT !.instances = coll, !.pc = "return"]

\* A hook of the caller's preHandler array either lets the request through
\* or answers it itself.
AfterUserHook(q, pass) ==
  IF pass THEN [q EXCEPT !.pc = "return"]
  ELSE [Send(q, 429, EmptyPayload) EXCEPT !.pc = "return"]

\* A hook function that has returned hands control back to the router.
Continue(q, more) == IF q.pc = "return" THEN Advance(q, more) ELSE q

\* ------------------------------------------------- the handlers, by await
AfterPerformCreate(q) ==
  [Send(q, 201, InstancePayload(q.built)) EXCEPT !.pc = "done"]

AfterPerformUpdate(q) ==
  [Send(q, 200, InstancePayload(q.instance)) EXCEPT !.pc = "done"]

\* The try/catch is missing: a failure goes the way of every other handler's.
AfterPerformDestroyNoCatch(q, ok) ==
  IF ok THEN [Send(q, 200, EmptyPayload) EXCEPT !.pc = "done"]
  ELSE Fail(q)

\* try { await performDestroy(...); 200 } catch (e) { 400, e }
AfterPerformDestroy(q, ok) ==
  IF ok THEN [Send(q, 200, EmptyPayload) EXCEPT !.pc = "done"]
  ELSE [Send(q, 400, ErrorPayload) EXCEPT !.pc = "done"]

\* ---------------------------------------------------------------- requests
Unfetched == {Null}

NewRequest(o, p) ==
  [op |-> o, param |-> p, stage |-> "user", pc |-> "idle", running |-> {},
   calls |-> <<>>, result |-> [h \in OwnHooks |-> "-"], handled |-> FALSE,
   found |-> Null, built |-> Null, instance |-> Null,
   instances |-> Unfetched, code |-> 0, payload |-> NoPayload,
   gotObject |-> Null, gotObjects |-> Unfetched]

\* q.gotObject and q.gotObjects keep what getObject and getObjects resolved
\* to for the request.
\* The resolved instance and collection are kept in variables all requests
\* share instead of on the request.
StoreShared(rq, r, q) ==
  [s \in DOMAIN rq |->
     IF s = r THEN q
     ELSE [rq[s] EXCEPT !.instance = q.instance, !.instances = q.instances]]

\* `request.instance = ...` and `request.instances = ...` write to the
\* request object of the request being handled.
Store(rq, r, q) == [rq EXCEPT ![r] = q]

\* The router matches the request to its route and starts the chain.
Dispatch(r) ==
  /\ req[r].pc = "idle"
  /\ \E more \in BOOLEAN : req' = [req EXCEPT ![r] = Advance(@, more)]
  /\ UNCHANGED <<schemaVars, call, triple, upd, gen>>

UserHookResolves(r) ==
  /\ req[r].pc = "preHandler"
  /\ \E pass \in BOOLEAN, more \in BOOLEAN :
       req' = [req EXCEPT ![r] =
                 Continue(AfterUserHook(Settle(@, "preHandler", "truthy"), pass), more)]
  /\ UNCHANGED <<schemaVars, call, triple, upd, gen>>

HasPermissionResolves(r) ==
  /\ req[r].pc = "hasPermission"
  /\ \E allowed \in BOOLEAN :
       req' = [req EXCEPT ![r] =
                 Continue(AfterHasPermission(Settle(@, "hasPermission", Outcome(allowed)), allowed),
                          FALSE)]
  /\ UNCHANGED <<schemaVars, call, triple, upd, gen>>

GetObjectResolves(r) ==
  /\ req[r].pc = "getObject"
  /\ \E inst \in Instances \cup {Null} :
       req' = [req EXCEPT ![r] =
                 Continue(AfterGetObject(
                            [Settle(@, "getObject", Outcome(inst # Null))
                               EXCEPT !.gotObject = inst], inst), FALSE)]
  /\ UNCHANGED <<schemaVars, call, triple, upd, gen>>

HasObjectPermissionResolves(r) ==
  /\ req[r].pc = "hasObjectPermission"
  /\ \E allowed \in BOOLEAN :
       req' = Store(req, r,
                 Continue(AfterHasObjectPermission(
                            Settle(req[r], "hasObjectPermission",
                                   Outcome(allowed)), allowed), FALSE))
  /\ UNCHANGED <<schemaVars, call, triple, upd, gen>>

GetObjectsResolves(r) ==
  /\ req[r].pc = "getObjects"
  /\ \E coll \in SUBSET Instances :
       req' = Store(req, r,
                 Continue(AfterGetObjects(
                            [Settle(req[r], "getObjects", "truthy")
                               EXCEPT !.gotObjects = coll], coll), FALSE))
  /\ UNCHANGED <<schemaVars, call, triple, upd, gen>>

PerformCreateResolves(r) ==
  /\ req[r].pc = "performCreate"
  /\ req' = [req EXCEPT ![r] = AfterPerformCreate(Settle(@, "performCreate", "truthy"))]
  /\ UNCHANGED <<schemaVars, call, triple, upd, gen>>

PerformUpdateResolves(r) ==
  /\ req[r].pc = "performUpdate"
  /\ req' = [req EXCEPT ![r] = AfterPerformUpdate(Settle(@, "performUpdate", "truthy"))]
  /\ UNCHANGED <<schemaVars, call, triple, upd, gen>>

PerformDestroySettles(r) ==
  /\ req[r].pc = "performDestroy"
  /\ \E ok \in BOOLEAN :
       req' = [req EXCEPT ![r] =
                 AfterPerformDestroy(
                   Settle(@, "performDestroy", IF ok THEN "truthy" ELSE "threw"),
                   ok)]
  /\ UNCHANGED <<schemaVars, call, triple, upd, gen>>

\* Any hook but performDestroy that throws is caught by nothing here.
UncaughtHooks ==
  {"preHandler", "hasPermission", "getObject", "hasObjectPermission",
   "getObjects", "performCreate", "performUpdate"}

HookThrows(r) ==
  /\ req[r].pc \in UncaughtHooks
  /\ req' = [req EXCEPT ![r] = Fail(Settle(@, @.pc, "threw"))]
  /\ UNCHANGED <<schemaVars, call, triple, upd, gen>>

\* ============================================================== schemas
\* Strings are sequences of one-character strings, so that pascalCase is
\* computed on the characters.
LowerChars == <<"a", "c", "e", "h", "o", "p", "r", "s", "t", "u">>
UpperChars == <<"A", "C", "E", "H", "O", "P", "R", "S", "T", "U">>

Range(f) == {f[i] : i \in DOMAIN f}
IsLower(c) == c \in Range(LowerChars)
IsUpper(c) == c \in Range(UpperChars)
IsAlnum(c) == IsLower(c) \/ IsUpper(c)
IndexIn(c, cs) == CHOOSE i \in DOMAIN cs : cs[i] = c
ToUpper(c) == IF IsLower(c) THEN UpperChars[IndexIn(c, LowerChars)] ELSE c
ToLower(c) == IF IsUpper(c) THEN LowerChars[IndexIn(c, UpperChars)] ELSE c

\* change-case splits words at every non-alphanumeric character, between a
\* lower-case and an upper-case letter, and before the last capital of a run
\* of capitals that a lower-case letter follows.
WordStart(s, i) ==
  \/ i = 1
  \/ ~IsAlnum(s[i - 1])
  \/ IsLower(s[i - 1]) /\ IsUpper(s[i])
  \/ IsUpper(s[i - 1]) /\ IsUpper(s[i]) /\ i < Len(s) /\ IsLower(s[i + 1])

RECURSIVE PascalFrom(_, _)
PascalFrom(s, i) ==
  IF i > Len(s) THEN <<>>
  ELSE IF ~IsAlnum(s[i]) THEN PascalFrom(s, i + 1)
  ELSE <<IF WordStart(s, i) THEN ToUpper(s[i]) ELSE ToLower(s[i])>>
       \o PascalFrom(s, i + 1)

\* pascalCase of change-case: every word capitalised, separators dropped.
pascalCase(s) == PascalFrom(s, 1)

\* The variation tags '', 'post' and 'patch'.
VarOut == <<>>
VarPost == <<"p", "o", "s", "t">>
VarPatch == <<"p", "a", "t", "c", "h">>
Variations == {VarOut, VarPost, VarPatch}

\* pascalCase(`${Model.name} ${variation}`)
FastifyGetSchemaName(name, variation) == pascalCase(name \o <<" ">> \o variation)

\* The entity names used: "User" and "UserPost".
EntityNames ==
  {<<"U", "s", "e", "r">>, <<"U", "s", "e", "r", "P", "o", "s", "t">>}

\* The identifiers of the entities, computed once.
SchemaName ==
  [e \in EntityNames, v \in Variations |-> FastifyGetSchemaName(e, v)]

SchemaIds == {SchemaName[e, v] : e \in EntityNames, v \in Variations}

\* The attributes of a model, and the arguments the calls are made with.
Fields == {"id", "name", "secret"}
DefaultReadOnly == {"id", "createdAt", "updatedAt"}
ExcludeChoices == SUBSET {"id", "secret"}
ReadOnlyChoices == SUBSET {"name", "secret"}
WriteOnlyChoices == SUBSET {"id", "secret"}
RequiredChoices == {{}, {"id", "name"}, {"id", "secret"}, {"name", "secret"}}

NoSchema == [present |-> FALSE, properties |-> {}, required |-> {}]
Schema(props, required) ==
  [present |-> TRUE, properties |-> props, required |-> required]

\* sjs.getModelSchema(Model, {exclude}): the attributes that are not excluded,
\* and those of them that are required.
ModelSchema(attrs, required, exclude) ==
  [properties |-> attrs \ exclude, required |-> (required \cap attrs) \ exclude]

\* The first test looks at readOnly only, so a write-only key is kept in
\* outProperties too.
OutPropertiesKeepsWriteOnly(schema, readOnly, writeOnly) ==
  LET ro == DefaultReadOnly \cup readOnly
  IN {key \in schema.properties : key \notin ro \/ key \in ro}

\* The forEach over schema.properties: which keys go to outProperties.
OutProperties(schema, readOnly, writeOnly) ==
  LET ro == DefaultReadOnly \cup readOnly
  IN {key \in schema.properties :
        \/ key \notin ro /\ key \notin writeOnly
        \/ ~(key \notin ro /\ key \notin writeOnly) /\ key \in ro}

\* The forEach tests writeOnly before readOnly.
InPropertiesWriteOnlyFirst(schema, readOnly, writeOnly) ==
  LET ro == DefaultReadOnly \cup readOnly
  IN {key \in schema.properties :
        \/ key \notin ro /\ key \notin writeOnly
        \/ key \in writeOnly}

\* The forEach over schema.properties: which keys go to inProperties.
InProperties(schema, readOnly, writeOnly) ==
  LET ro == DefaultReadOnly \cup readOnly
  IN {key \in schema.properties :
        \/ key \notin ro /\ key \notin writeOnly
        \/ /\ ~(key \notin ro /\ key \notin writeOnly)
           /\ key \notin ro
           /\ key \in writeOnly}

OutSchema(schema, readOnly, writeOnly) ==
  LET props == OutProperties(schema, readOnly, writeOnly)
  IN Schema(props, {item \in schema.required : item \in props})

PostSchema(schema, readOnly, writeOnly) ==
  LET props == InProperties(schema, readOnly, writeOnly)
  IN Schema(props, {item \in schema.required : item \in props})

\* The Patch schema keeps the required list of the Post schema.
PatchSchemaKeepsRequired(schema, readOnly, writeOnly) ==
  LET props == InProperties(schema, readOnly, writeOnly)
  IN Schema(props, {item \in schema.required : item \in props})

PatchSchema(schema, readOnly, writeOnly) ==
  Schema(InProperties(schema, readOnly, writeOnly), {})

\* The three schemas one call derives for a model with the attributes attrs.
Derive(attrs, required, exclude, readOnly, writeOnly) ==
  LET schema == ModelSchema(attrs, required, exclude)
  IN [out |-> OutSchema(schema, readOnly, writeOnly),
      post |-> PostSchema(schema, readOnly, writeOnly),
      patch |-> PatchSchema(schema, readOnly, writeOnly)]

\* fastify.addSchema throws when the identifier is already taken; what a
\* call has added before it throws stays in the registry.
AddSchema(st, id, schema) ==
  IF st.threw THEN st
  ELSE IF st.reg[id].present THEN [st EXCEPT !.threw = TRUE]
  ELSE [st EXCEPT !.reg[id] = schema]

\* The test for the three existing schemas is missing.
AlreadyExistsNever(reg, name) == FALSE

\* if (schemaGet && schemaPost && schemaPatch)
AlreadyExists(reg, name) ==
  /\ reg[SchemaName[name, VarOut]].present
  /\ reg[SchemaName[name, VarPost]].present
  /\ reg[SchemaName[name, VarPatch]].present

\* The registry after FastifyAddModelSchema, and whether the call threw.
AddModelSchema(reg, name, required, exclude, readOnly, writeOnly) ==
  LET d == Derive(Fields, required, exclude, readOnly, writeOnly)
      s0 == [reg |-> reg, threw |-> FALSE]
  IN IF AlreadyExists(reg, name) THEN s0
     ELSE AddSchema(
            AddSchema(
              AddSchema(s0, SchemaName[name, VarOut], d.out),
              SchemaName[name, VarPost], d.post),
            SchemaName[name, VarPatch], d.patch)

NoCall == [name |-> <<>>, first |-> FALSE, threw |-> FALSE, changed |-> FALSE]

NoTriple == [out |-> NoSchema, post |-> NoSchema, patch |-> NoSchema]

\* firstReg[name]: "none" before the first call for the entity; afterwards
\* how that call ended, and the three schemas it registered when it added
\* all three.
NoFirst == [how |-> "none", triple |-> NoTriple]

FirstOutcome(reg, st, name, d) ==
  IF AlreadyExists(reg, name) THEN [how |-> "existed", triple |-> NoTriple]
  ELSE IF st.threw THEN [how |-> "threw", triple |-> NoTriple]
  ELSE [how |-> "registered", triple |-> d]

FastifyAddModelSchema(name) ==
  \E required \in RequiredChoices, exclude \in ExcludeChoices,
     readOnly \in ReadOnlyChoices, writeOnly \in WriteOnlyChoices :
    LET st == AddModelSchema(registry, name, required, exclude, readOnly,
                             writeOnly)
        d == Derive(Fields, required, exclude, readOnly, writeOnly)
    IN /\ registry' = st.reg
       /\ firstReg' =
            IF firstReg[name].how = "none"
            THEN [firstReg EXCEPT ![name] = FirstOutcome(registry, st, name, d)]
            ELSE firstReg
       /\ lastCall' =
            [name |-> name, first |-> firstReg[name].how = "none",
             threw |-> st.threw, changed |-> st.reg # registry]
       /\ UNCHANGED <<req, call, triple, upd, gen>>

\* ------------------------------------------------ the derivation on its own
AllFields == {"id", "name", "secret", "createdAt"}
AttributeChoices == {AllFields, {"id", "name", "secret"}, {"name", "secret"}}
OverrideChoices == SUBSET {"id", "name", "secret"}

Calls ==
  {[attrs |-> a, required |-> rq, exclude |-> ex, readOnly |-> ro,
    writeOnly |-> wo] :
     a \in AttributeChoices, rq \in SUBSET {"id", "name", "secret"},
     ex \in ExcludeChoices, ro \in OverrideChoices, wo \in OverrideChoices}

NoArgs ==
  [attrs |-> {}, required |-> {}, exclude |-> {}, readOnly |-> {},
   writeOnly |-> {}]

\* The else branch of FastifyAddModelSchema up to the three schema objects.
DeriveSchemas ==
  /\ triple = NoTriple
  /\ triple' = Derive(call.attrs, call.required, call.exclude, call.readOnly,
                      call.writeOnly)
  /\ UNCHANGED <<req, call, schemaVars, upd, gen>>

\* ------------------------------------------------------ route generation
\* The operation names FastifySequelizeAPI looks for in genericView, and one
\* it does not know.
ViewOps == {"LIST", "RETRIEVE", "CREATE", "UPDATE", "DESTROY"}
ViewNames == ViewOps \cup {"PURGE"}

FastifySequelizeGenericViews ==
  [ListAPIView |-> {"LIST"},
   ListCreateAPIView |-> {"LIST", "CREATE"},
   RetrieveAPIView |-> {"RETRIEVE"},
   CreateAPIView |-> {"CREATE"},
   UpdateAPIView |-> {"UPDATE"},
   RetrieveUpdateDestroyAPIView |-> {"RETRIEVE", "UPDATE", "DESTROY"}]

Prefixes == {"/users", "/users/:id"}
NoBody == <<>>

Binding(m, url, o, body, ok, response) ==
  [method |-> m, url |-> url, op |-> o, body |-> body, ok |-> ok,
   response |-> response]

\* if (genericView.includes(o)) fastify.<m>(url, {...})
Route(view, o, m, url, body, ok, response) ==
  IF o \in view THEN <<Binding(m, url, o, body, ok, response)>> ELSE <<>>

\* The calls fastify.get/post/patch/put/delete of FastifySequelizeAPI, in the
\* order of the code, each with its url, body schema and success response.
RoutesFor(name, view, prefix) ==
  LET out == FastifyGetSchemaName(name, VarOut)
      post == FastifyGetSchemaName(name, VarPost)
      patch == FastifyGetSchemaName(name, VarPatch)
  IN Route(view, "RETRIEVE", "GET", prefix, NoBody, 200, out)
     \o Route(view, "LIST", "GET", prefix, NoBody, 200, out)
     \o Route(view, "CREATE", "POST", prefix, post, 201, out)
     \o Route(view, "UPDATE", "PATCH", prefix, patch, 200, out)
     \o Route(view, "UPDATE", "PUT", prefix, post, 200, out)
     \o Route(view, "DESTROY", "DELETE", prefix, NoBody, 200, NoBody)

\* fastify refuses a route whose method and url are already declared.
Declared(routes, b) ==
  \E i \in DOMAIN routes :
    routes[i].method = b.method /\ routes[i].url = b.url

\* The router while the calls are made.  A refused route throws out of
\* FastifySequelizeAPI when fastify registers routes synchronously (sync);
\* otherwise the error is kept for the start of the server and the
\* remaining calls are still made.
RECURSIVE RegisterAll(_, _, _)
RegisterAll(st, planned, sync) ==
  IF planned = <<>> \/ st.threw THEN st
  ELSE LET b == Head(planned)
           tried == [st EXCEPT !.attempts = Append(@, b)]
       IN IF Declared(st.routes, b)
          THEN IF sync THEN [tried EXCEPT !.threw = TRUE]
               ELSE RegisterAll([tried EXCEPT !.bootError = TRUE],
                                Tail(planned), sync)
          ELSE RegisterAll([tried EXCEPT !.routes = Append(@, b)],
                           Tail(planned), sync)

\* One call: console.assert only reports a missing argument; Model.name,
\* genericView.includes and fastify.get/... throw a TypeError on a missing
\* one when they are reached.
Generate(g) ==
  LET st0 == [routes |-> <<>>, attempts |-> <<>>, threw |-> FALSE,
              bootError |-> FALSE]
      reported == ~g.fastify \/ ~g.model \/ ~g.hasView
      st == IF ~g.model THEN [st0 EXCEPT !.threw = TRUE]
            ELSE IF ~g.hasView THEN [st0 EXCEPT !.threw = TRUE]
            ELSE LET planned == RoutesFor(g.name, g.view, g.prefix)
                 IN IF ~g.fastify
                    THEN IF planned = <<>> THEN st0
                         ELSE [st0 EXCEPT !.threw = TRUE]
                    ELSE RegisterAll(st0, planned, g.sync)
  IN [g EXCEPT !.pc = "done", !.reported = reported, !.routes = st.routes,
               !.attempts = st.attempts, !.threw = st.threw,
               !.bootError = st.bootError]

NewGen(f, m, hv, name, view, prefix, sync) ==
  [fastify |-> f, model |-> m, hasView |-> hv, name |-> name, view |-> view,
   prefix |-> prefix, sync |-> sync, pc |-> "call", reported |-> FALSE,
   routes |-> <<>>, attempts |-> <<>>, threw |-> FALSE, bootError |-> FALSE]

NoGen == NewGen(FALSE, FALSE, FALSE, <<>>, {}, "", FALSE)

GenCalls ==
  {NewGen(f, m, hv, name, IF hv THEN view ELSE {}, prefix, sync) :
     f \in BOOLEAN, m \in BOOLEAN, hv \in BOOLEAN, name \in EntityNames,
     view \in SUBSET ViewNames, prefix \in Prefixes, sync \in BOOLEAN}

FastifySequelizeAPI ==
  /\ gen.pc = "call"
  /\ gen' = Generate(gen)
  /\ UNCHANGED <<req, schemaVars, call, triple, upd>>

\* ------------------------------------------- the Update handler with data
\* An instance and a request body are functions from field names to values;
\* a body may have any of the fields.
UpdateKeys == {"name", "secret"}
UpdateValues == {"old", "x"}
Bodies == UNION {[D -> UpdateValues] : D \in SUBSET UpdateKeys}
Rows == [UpdateKeys -> UpdateValues]
NoRow == <<>>

\* The instance is replaced by the body instead of merged with it.
AssignReplaces(target, source) == source

\* Object.assign(target, source): every key of source is set on target.
ObjectAssign(target, source) ==
  [k \in DOMAIN target \cup DOMAIN source |->
     IF k \in DOMAIN source THEN source[k] ELSE target[k]]

NewUpdate(m, resolved, row, body) ==
  [method |-> m, resolved |-> resolved, before |-> row, instance |-> row,
   body |-> body, pc |-> "handler", passed |-> NoRow, settled |-> FALSE,
   code |-> 0, sent |-> NoRow]

\* The PATCH and the PUT handler up to `await performUpdate(request, instance)`:
\* request.instance is merged with request.body and handed to the hook.
UpdateHandler ==
  /\ upd.pc = "handler"
  /\ upd' =
       IF ~upd.resolved
       THEN [upd EXCEPT !.pc = "done", !.code = 500]
       ELSE [upd EXCEPT !.instance = ObjectAssign(upd.instance, upd.body),
                        !.passed = ObjectAssign(upd.instance, upd.body),
                        !.pc = "performUpdate"]
  /\ UNCHANGED <<req, schemaVars, call, triple, gen>>

\* performUpdate settles: reply.code(200).send(instance), or the error reply.
UpdateHookSettles ==
  /\ upd.pc = "performUpdate"
  /\ \E ok \in BOOLEAN :
       upd' =
         IF ok
         THEN [upd EXCEPT !.settled = TRUE, !.pc = "done", !.code = 200,
                          !.sent = upd.instance]
         ELSE [upd EXCEPT !.settled = TRUE, !.pc = "done", !.code = 500]
  /\ UNCHANGED <<req, schemaVars, call, triple, gen>>

NoUpdate == upd = NewUpdate("PATCH", FALSE, NoRow, NoRow)

\* ======================================================= specifications
\* Requests are interchangeable, so the initial states list their inputs in
\* one order only.
OpRank(o) ==
  CASE o = "RETRIEVE" -> 0 [] o = "LIST" -> 1 [] o = "CREATE" -> 2
    [] o = "UPDATE_PATCH" -> 3 [] o = "UPDATE_PUT" -> 4 [] o = "DESTROY" -> 5
ParamRank(p) == CASE p = Undefined -> 0 [] p = "" -> 1 [] p = "7" -> 2
Rank(q) == 3 * OpRank(q.op) + ParamRank(q.param)

IdleRegistry ==
  /\ registry = [id \in SchemaIds |-> NoSchema]
  /\ firstReg = [e \in EntityNames |-> NoFirst]
  /\ lastCall = NoCall

NoRequests ==
  req = [r \in Requests |-> NewRequest("LIST", Undefined)]

NoDerivation == call = NoArgs /\ triple = NoTriple

NoGeneration == gen = NoGen

Init ==
  /\ req \in [Requests -> {NewRequest(o, p) : o \in Ops, p \in Params}]
  /\ \A r \in Requests : r + 1 \in Requests => Rank(req[r]) <= Rank(req[r + 1])
  /\ IdleRegistry
  /\ NoDerivation
  /\ NoUpdate
  /\ NoGeneration

Next ==
  \E r \in Requests :
    \/ Dispatch(r)
    \/ UserHookResolves(r)
    \/ HasPermissionResolves(r)
    \/ GetObjectResolves(r)
    \/ HasObjectPermissionResolves(r)
    \/ GetObjectsResolves(r)
    \/ PerformCreateResolves(r)
    \/ PerformUpdateResolves(r)
    \/ PerformDestroySettles(r)
    \/ HookThrows(r)

Spec == Init /\ [][Next]_vars

SchemaInit ==
  NoRequests /\ IdleRegistry /\ NoDerivation /\ NoUpdate /\ NoGeneration

SchemaNext == \E name \in EntityNames : FastifyAddModelSchema(name)

SchemaSpec == SchemaInit /\ [][SchemaNext]_vars

DeriveInit ==
  /\ NoRequests /\ IdleRegistry /\ NoUpdate /\ NoGeneration
  /\ call \in Calls
  /\ triple = NoTriple

DeriveNext == DeriveSchemas

DeriveSpec == DeriveInit /\ [][DeriveNext]_vars

UpdateInit ==
  /\ NoRequests /\ IdleRegistry /\ NoDerivation /\ NoGeneration
  /\ \/ \E m \in {"PATCH", "PUT"}, row \in Rows, body \in Bodies :
          upd = NewUpdate(m, TRUE, row, body)
     \/ \E m \in {"PATCH", "PUT"}, body \in Bodies :
          upd = NewUpdate(m, FALSE, NoRow, body)

UpdateNext == UpdateHandler \/ UpdateHookSettles

UpdateSpec == UpdateInit /\ [][UpdateNext]_vars

ComposeInit ==
  /\ NoRequests /\ IdleRegistry /\ NoDerivation /\ NoUpdate
  /\ gen \in GenCalls

ComposeNext == FastifySequelizeAPI

ComposeSpec == ComposeInit /\ [][ComposeNext]_vars

\* ================================================================ claims
Called(q, h) == \E i \in DOMAIN q.calls : q.calls[i] = h

\* The authorization hook let the request through: the coarse check allowed
\* and, where a lookup was due, it found an instance the object check allowed.
Allowed(q) ==
  /\ q.result["hasPermission"] = "truthy"
  /\ \/ Method(q.op) = "POST"
     \/ ~Truthy(q.param)
     \/ /\ q.result["getObject"] = "truthy"
        /\ q.result["hasObjectPermission"] = "truthy"

SideEffectHooks == {"performCreate", "performUpdate", "performDestroy"}

\* C1: once hasPermission has rejected a request, its reply is 401, the
\* request is finished, and getObject and hasObjectPermission have not been
\* and are never called for it.
C1_RejectedIs401 ==
  \A r \in Requests :
    req[r].result["hasPermission"] = "falsy" =>
      /\ req[r].code = 401
      /\ req[r].pc = "done"
      /\ ~Called(req[r], "getObject")
      /\ ~Called(req[r], "hasObjectPermission")

C1_Witness ==
  \E r \in Requests :
    /\ req[r].result["hasPermission"] = "falsy"
    /\ req[r].code = 401
    /\ Truthy(req[r].param)
    /\ Method(req[r].op) # "POST"

\* C2: for a request that is not a POST and has the lookup parameter, when
\* hasPermission allowed and getObject resolved to no instance, the reply is
\* 404, the request is finished and hasObjectPermission is never called.
C2_NotFoundIs404 ==
  \A r \in Requests :
    ( /\ Method(req[r].op) # "POST"
      /\ Truthy(req[r].param)
      /\ req[r].result["hasPermission"] = "truthy"
      /\ req[r].result["getObject"] = "falsy" ) =>
      /\ req[r].code = 404
      /\ req[r].pc = "done"
      /\ ~Called(req[r], "hasObjectPermission")

C2_Witness ==
  \E r \in Requests :
    /\ Method(req[r].op) # "POST"
    /\ Truthy(req[r].param)
    /\ req[r].result["hasPermission"] = "truthy"
    /\ req[r].result["getObject"] = "falsy"
    /\ req[r].code = 404

\* C3: a handler body is entered, and a create/update/destroy hook called,
\* only for a request the authorization hook let through; a request answered
\* 401, 404 or 403 has no handler body entered and no such hook called.
C3_HandlerOnlyIfAllowed ==
  \A r \in Requests :
    /\ req[r].handled => Allowed(req[r])
    /\ \A h \in SideEffectHooks : Called(req[r], h) => req[r].handled
    /\ req[r].code \in {401, 404, 403} =>
         /\ ~req[r].handled
         /\ \A h \in SideEffectHooks : ~Called(req[r], h)

C3_Witness ==
  /\ \E r \in Requests :
       /\ req[r].handled
       /\ \E h \in SideEffectHooks : Called(req[r], h)
       /\ req[r].result["hasObjectPermission"] = "truthy"
  /\ \E r \in Requests : req[r].code \in {401, 404, 403} /\ req[r].pc = "done"

\* C4: when hasPermission allowed, getObject resolved to an instance and
\* hasObjectPermission rejected, the reply is 403 and request.instance is
\* never set.
C4_ForbiddenIs403 ==
  \A r \in Requests :
    ( /\ req[r].result["hasPermission"] = "truthy"
      /\ req[r].result["getObject"] = "truthy"
      /\ req[r].result["hasObjectPermission"] = "falsy" ) =>
      /\ req[r].code = 403
      /\ req[r].pc = "done"
      /\ req[r].instance = Null

C4_Witness ==
  \E r \in Requests :
    /\ req[r].result["hasObjectPermission"] = "falsy"
    /\ req[r].found \in Instances
    /\ req[r].code = 403

\* The order the hooks of one request are called in.
HookRank(h) ==
  CASE h = "hasPermission" -> 1
    [] h = "getObject" -> 2
    [] h = "hasObjectPermission" -> 3
    [] h = "getObjects" -> 4
    [] h \in SideEffectHooks -> 5

\* C5: the hooks of one request are called in the order hasPermission,
\* getObject, hasObjectPermission, getObjects, side-effect hook; a hook is
\* called only when every hook called before it has settled, so at most one
\* hook of a request is in progress at any time, whatever the other requests
\* are doing.
C5_HooksInOrderOneAtATime ==
  \A r \in Requests :
    /\ Cardinality(req[r].running) <= 1
    /\ \A i \in DOMAIN req[r].calls : \A j \in DOMAIN req[r].calls :
         i < j =>
           /\ HookRank(req[r].calls[i]) < HookRank(req[r].calls[j])
           /\ req[r].result[req[r].calls[i]] # "-"
    /\ \A h \in req[r].running \cap OwnHooks :
         req[r].calls[Len(req[r].calls)] = h

C5_Witness ==
  \E r \in Requests : \E s \in Requests :
    /\ r # s
    /\ req[r].calls =
         <<"hasPermission", "getObject", "hasObjectPermission", "performUpdate">>
    /\ req[r].running = {"performUpdate"}
    /\ req[s].calls = <<"hasPermission", "getObjects">>
    /\ req[s].running = {"getObjects"}

\* C6: for a POST request hasPermission allowed, the handler is entered
\* with neither getObject nor hasObjectPermission called, with or without
\* the lookup parameter.
C6_CreateSkipsLookup ==
  \A r \in Requests :
    ( /\ Method(req[r].op) = "POST"
      /\ req[r].result["hasPermission"] = "truthy" ) =>
      /\ req[r].handled
      /\ ~Called(req[r], "getObject")
      /\ ~Called(req[r], "hasObjectPermission")
      /\ req[r].code \notin {401, 404, 403}

C6_Witness ==
  /\ \E r \in Requests :
       /\ req[r].op = "CREATE"
       /\ Truthy(req[r].param)
       /\ req[r].handled
       /\ req[r].code = 201
  /\ \E r \in Requests :
       /\ req[r].op = "CREATE"
       /\ ~Truthy(req[r].param)
       /\ req[r].handled

\* The identifiers of an entity that are taken in the registry.
TakenIds(e) == {v \in Variations : registry[SchemaName[e, v]].present}

\* C7: when the first FastifyAddModelSchema call for an entity registered
\* its three schemas, every later call for that entity, whatever its
\* arguments, neither throws nor changes the registry, and the three
\* identifiers keep mapping to the schemas of the first call; no call for an
\* entity other than its first changes the registry.
C7_ReRegistrationIsNoOp ==
  /\ \A e \in EntityNames :
       firstReg[e].how = "registered" =>
         /\ Cardinality(TakenIds(e)) = 3
         /\ registry[SchemaName[e, VarOut]] = firstReg[e].triple.out
         /\ registry[SchemaName[e, VarPost]] = firstReg[e].triple.post
         /\ registry[SchemaName[e, VarPatch]] = firstReg[e].triple.patch
         /\ (lastCall.name = e /\ ~lastCall.first) =>
              ~lastCall.threw /\ ~lastCall.changed
  /\ lastCall.changed => lastCall.first

C7_Witness ==
  \E e \in EntityNames :
    /\ firstReg[e].how = "registered"
    /\ lastCall.name = e
    /\ ~lastCall.first
    /\ firstReg[e].triple.out.properties = {"id", "name"}
    /\ firstReg[e].triple.post.properties = {"name", "secret"}

\* C8: after any sequence of FastifyAddModelSchema calls, the number of an
\* entity's three identifiers taken in the registry is 0 or 3.
C8_AllOrNothing ==
  \A e \in EntityNames : Cardinality(TakenIds(e)) \in {0, 3}

\* The class of a field: read-only when it is in readOnly or in the default
\* read-only set, else write-only when it is in writeOnly, else both.
Class(f) ==
  IF f \in call.readOnly \cup DefaultReadOnly THEN "read-only"
  ELSE IF f \in call.writeOnly THEN "write-only"
  ELSE "both"

Considered == call.attrs \ call.exclude

\* C9: when no field is in both readOnly and writeOnly, the properties of
\* Out are the non-excluded fields of class both or read-only, the
\* properties of Post and of Patch are the non-excluded fields of class both
\* or write-only, Out minus Post is the read-only fields and Post minus Out
\* the write-only fields.
C9_PropertiesByClass ==
  (triple # NoTriple /\ call.readOnly \cap call.writeOnly = {}) =>
    /\ triple.out.properties =
         {f \in Considered : Class(f) \in {"both", "read-only"}}
    /\ triple.post.properties =
         {f \in Considered : Class(f) \in {"both", "write-only"}}
    /\ triple.patch.properties = triple.post.properties
    /\ triple.out.properties \ triple.post.properties =
         {f \in Considered : Class(f) = "read-only"}
    /\ triple.post.properties \ triple.out.properties =
         {f \in Considered : Class(f) = "write-only"}

C9_Witness ==
  /\ triple # NoTriple
  /\ call.readOnly \cap call.writeOnly = {}
  /\ call.attrs = AllFields
  /\ call.readOnly = {"name"}
  /\ call.writeOnly = {"secret"}
  /\ triple.out.properties = {"id", "name", "createdAt"}
  /\ triple.post.properties = {"secret"}

\* C10: the required fields of Out are the model's required fields that are
\* properties of Out, those of Post the model's required fields that are
\* properties of Post, and Patch requires nothing.
C10_RequiredByVariant ==
  triple # NoTriple =>
    /\ triple.out.required =
         (call.required \cap call.attrs) \cap triple.out.properties
    /\ triple.post.required =
         (call.required \cap call.attrs) \cap triple.post.properties
    /\ triple.patch.required = {}

C10_Witness ==
  /\ triple # NoTriple
  /\ call.required = {"id", "name", "secret"}
  /\ call.readOnly = {"secret"}
  /\ call.writeOnly = {"secret"}
  /\ triple.out.required = {"id", "name", "secret"}
  /\ triple.post.required = {"name"}
  /\ triple.patch.properties = {"name"}
  /\ triple.patch.required = {}


\* C11: when performDestroy fails, the Destroy handler replies 400 with the
\* failure as the body, and when it succeeds 200 with an empty body; a
\* failure of performCreate or performUpdate is caught by no handler and
\* ends in the router's error reply.
C11_DestroyFailureIs400 ==
  \A r \in Requests :
    /\ req[r].result["performDestroy"] = "threw" =>
         /\ req[r].code = 400
         /\ req[r].payload = ErrorPayload
         /\ req[r].pc = "done"
    /\ req[r].result["performDestroy"] = "truthy" =>
         /\ req[r].code = 200
         /\ req[r].payload = EmptyPayload
    /\ \A h \in {"performCreate", "performUpdate"} :
         req[r].result[h] = "threw" => req[r].code = 500

C11_Witness ==
  /\ \E r \in Requests :
       req[r].result["performDestroy"] = "threw" /\ req[r].code = 400
  /\ \E r \in Requests :
       req[r].result["performUpdate"] = "threw" /\ req[r].code = 500


\* C12: for PATCH and for PUT, the instance performUpdate is called with is
\* the resolved instance with every field of the body set to the body's
\* value and every other field as it was, and the 200 reply is sent only
\* after performUpdate has settled, with that instance.
C12_MergeThenHookThenReply ==
  /\ (upd.resolved /\ upd.pc \in {"performUpdate", "done"}) =>
       /\ DOMAIN upd.passed = DOMAIN upd.before \cup DOMAIN upd.body
       /\ \A k \in DOMAIN upd.body : upd.passed[k] = upd.body[k]
       /\ \A k \in DOMAIN upd.before \ DOMAIN upd.body :
            upd.passed[k] = upd.before[k]
  /\ upd.code = 200 => upd.settled /\ upd.sent = upd.passed
  /\ upd.pc = "performUpdate" => upd.code = 0

C12_Witness ==
  /\ upd.method = "PUT"
  /\ upd.before = [name |-> "old", secret |-> "old"]
  /\ DOMAIN upd.body = {"name"}
  /\ upd.body["name"] = "x"
  /\ upd.code = 200
  /\ upd.sent = [name |-> "x", secret |-> "old"]


\* A call made with the router, the entity and the operation set.
Complete(g) == g.fastify /\ g.model /\ g.hasView

UpdateRoutes(g) == {i \in DOMAIN g.routes : g.routes[i].op = "UPDATE"}

\* C13: a call whose operation set contains UPDATE registers exactly two
\* routes for it, a PATCH whose body is the Patch schema and a PUT whose body
\* is the Post schema, both with the Out schema as their 200 response.
C13_UpdateIsPatchAndPut ==
  (gen.pc = "done" /\ Complete(gen) /\ "UPDATE" \in gen.view) =>
    /\ Cardinality(UpdateRoutes(gen)) = 2
    /\ \E i \in UpdateRoutes(gen) : \E j \in UpdateRoutes(gen) :
         /\ gen.routes[i].method = "PATCH"
         /\ gen.routes[i].body = FastifyGetSchemaName(gen.name, VarPatch)
         /\ gen.routes[j].method = "PUT"
         /\ gen.routes[j].body = FastifyGetSchemaName(gen.name, VarPost)
         /\ gen.routes[i].body # gen.routes[j].body
         /\ gen.routes[i].ok = 200 /\ gen.routes[j].ok = 200
         /\ gen.routes[i].response = FastifyGetSchemaName(gen.name, VarOut)
         /\ gen.routes[j].response = gen.routes[i].response

\* C14: a call made without the router, without the entity or without the
\* operation set ends in an error and registers no route.
C14_MissingArgumentHalts ==
  (gen.pc = "done" /\ ~Complete(gen)) => gen.threw /\ gen.routes = <<>>

\* C19: no two routes a call asks the router for have the same method and
\* url, and when the operation set has both LIST and RETRIEVE both GET routes
\* are registered, under different urls.
C19_RoutesAreDistinct ==
  (gen.pc = "done" /\ Complete(gen)) =>
    /\ \A i \in DOMAIN gen.attempts : \A j \in DOMAIN gen.attempts :
         i # j =>
           \/ gen.attempts[i].method # gen.attempts[j].method
           \/ gen.attempts[i].url # gen.attempts[j].url
    /\ {"LIST", "RETRIEVE"} \subseteq gen.view =>
         \E i \in DOMAIN gen.routes : \E j \in DOMAIN gen.routes :
           /\ gen.routes[i].op = "LIST"
           /\ gen.routes[j].op = "RETRIEVE"
           /\ gen.routes[i].url # gen.routes[j].url


\* C15: getObjects is called only for a LIST request the authorization hook
\* let through, never for one answered 401, 404 or 403; and the 200 reply of
\* the List handler carries the collection getObjects resolved to, which is
\* then request.instances.
C15_ListFetchesAfterAllowed ==
  \A r \in Requests :
    /\ Called(req[r], "getObjects") =>
         /\ req[r].op = "LIST"
         /\ Allowed(req[r])
         /\ req[r].code \notin {401, 404, 403}
    /\ (req[r].op = "LIST" /\ req[r].code = 200) =>
         /\ req[r].result["getObjects"] = "truthy"
         /\ req[r].instances = req[r].gotObjects
         /\ req[r].payload = ListPayload(req[r].gotObjects)

C15_Witness ==
  /\ \E r \in Requests :
       /\ req[r].op = "LIST"
       /\ req[r].code = 200
       /\ req[r].payload = ListPayload({"a"})
       /\ req[r].calls = <<"hasPermission", "getObjects">>
  /\ \E r \in Requests :
       /\ req[r].op = "LIST"
       /\ req[r].code = 403
       /\ req[r].pc = "done"

\* C17: every non-excluded field is a property of Out or of Post, so it is
\* of exactly one of the classes both (Out and Post), read-only (Out only)
\* and write-only (Post only); a field listed in readOnly and in writeOnly
\* is a property of Out and of neither Post nor Patch.
C17_OneClassReadOnlyWins ==
  triple # NoTriple =>
    /\ triple.out.properties \cup triple.post.properties = Considered
    /\ \A f \in Considered :
         Cardinality({c \in {"both", "read-only", "write-only"} :
            \/ c = "both" /\ f \in triple.out.properties
                          /\ f \in triple.post.properties
            \/ c = "read-only" /\ f \in triple.out.properties
                               /\ f \notin triple.post.properties
            \/ c = "write-only" /\ f \notin triple.out.properties
                                /\ f \in triple.post.properties}) = 1
    /\ \A f \in Considered \cap call.readOnly \cap call.writeOnly :
         /\ f \in triple.out.properties
         /\ f \notin triple.post.properties
         /\ f \notin triple.patch.properties

C17_Witness ==
  /\ triple # NoTriple
  /\ call.attrs = AllFields
  /\ call.exclude = {}
  /\ call.readOnly = {"secret"}
  /\ call.writeOnly = {"name", "secret"}
  /\ triple.out.properties = {"id", "secret", "createdAt"}
  /\ triple.post.properties = {"name"}
  /\ triple.patch.properties = {"name"}

InstanceOps == {"RETRIEVE", "UPDATE_PATCH", "UPDATE_PUT", "DESTROY"}

\* C16: under every interleaving, request.instance of a request is unset or
\* the instance its own getObject resolved to, request.instances is unset or
\* the collection its own getObjects resolved to, and the instance or
\* collection a 200 reply carries is the request's own.
C16_ContextIsRequestLocal ==
  \A r \in Requests :
    /\ req[r].instance \in {Null, req[r].gotObject}
    /\ req[r].instances \in {Unfetched, req[r].gotObjects}
    /\ (req[r].code = 200 /\ req[r].op \in {"RETRIEVE", "UPDATE_PATCH", "UPDATE_PUT"}) =>
         req[r].payload = InstancePayload(req[r].gotObject)
    /\ (req[r].code = 200 /\ req[r].op = "LIST") =>
         req[r].payload = ListPayload(req[r].gotObjects)

C16_Witness ==
  \E r \in Requests : \E s \in Requests :
    /\ r # s
    /\ req[r].gotObject = "a"
    /\ req[s].gotObject = "b"
    /\ req[r].instance = "a"
    /\ req[r].pc = "performUpdate"
    /\ req[s].code = 200
    /\ req[s].payload = InstancePayload("b")

\* C18: whenever the Retrieve, Update or Destroy handler body has been
\* entered, request.instance is an instance getObject resolved to and
\* hasObjectPermission accepted for that request.
C18_HandlerHasInstance ==
  \A r \in Requests :
    (req[r].handled /\ req[r].op \in InstanceOps) =>
      /\ req[r].instance # Null
      /\ req[r].instance = req[r].gotObject
      /\ req[r].result["hasObjectPermission"] = "truthy"


\* C20: the identifiers of two entities with different names never
\* coincide, so before the first FastifyAddModelSchema call for an entity
\* none of its three identifiers is in the registry, and that first call
\* neither finds the entity already registered nor is refused an identifier.
C20_EntitiesDoNotCollide ==
  \A e \in EntityNames :
    /\ \A f \in EntityNames \ {e} : \A v \in Variations : \A w \in Variations :
         (registry[SchemaName[e, v]].present /\ firstReg[f].how = "none") =>
           FastifyGetSchemaName(e, v) # FastifyGetSchemaName(f, w)
    /\ firstReg[e].how = "none" => TakenIds(e) = {}
    /\ firstReg[e].how \in {"none", "registered"}

====
